---- MODULE Spec2Model ----
(***************************************************************************)
(* Model of order_manager.py: the Attendant availability state machine,    *)
(* the heapq-backed event queue, and the Orchestrator event loop.          *)
(* Times are integers (the grid points of the float time axis).            *)
(***************************************************************************)
EXTENDS Integers, Sequences, FiniteSets, TLC

VARIABLES attendants,   \* Orchestrator.attendants: name -> Attendant fields
          event_queue,  \* Orchestrator.event_queue: the heapq list
          current_time, \* Orchestrator.current_time
          processed,    \* Orchestrator.processed
          rejected,     \* Orchestrator.rejected
          pc,           \* "idle": outside process_events, "running": inside its loop
          last,         \* outcome of the last step: the event handled by the
                        \* loop, a direct Attendant call, a KeyError, or "ok"
                        \* for any other call that returned normally
                        \* (name: attendant or failed key, arg: time, prev:
                        \* the target's active_orders before a direct call)
          submitted,    \* number of add_order calls so far
          popped,       \* number of events popped so far, per event type
          shadow        \* attendants and counters of the same Orchestrator
                        \* run with a handle_order_completion that does
                        \* nothing (same calls, same events, same clock);
                        \* kept only where on is TRUE (ShadowSpec)

vars == <<attendants, event_queue, current_time, processed, rejected, pc,
          last, submitted, popped, shadow>>

\* ---------------------------------------------------------------- bounds
MaxTime == 2
MaxArrivals == 3

\* add_order takes any time: one negative grid time and 0..MaxTime
ArrivalTimes == (0 - 1)..MaxTime

\* ------------------------------------------------------------- constants
Names == {"Alice", "Bob"}
Statuses == {"active", "inactive", "overloaded"}
ServiceTime == 5
Cooldown == 3
NoName == "none"

Max(a, b) == IF a >= b THEN a ELSE b

Min(a, b) == IF a <= b THEN a ELSE b

\* ----------------------------------------------------------------- Event
Event(time, type, attendant) ==
    [time |-> time, type |-> type, attendant |-> attendant]

\* dataclass(order=True) with type and data excluded: compares time only
EventLt(e1, e2) == e1.time < e2.time

\* ----------------------------------------------------------------- heapq
\* Positions are 0-based as in heapq; heap[p + 1] is Python's heap[p].
RECURSIVE siftdown_loop(_, _, _, _)
siftdown_loop(heap, startpos, pos, newitem) ==
    IF pos > startpos
    THEN LET parentpos == (pos - 1) \div 2
             parent == heap[parentpos + 1]
         IN IF EventLt(newitem, parent)
            THEN siftdown_loop([heap EXCEPT ![pos + 1] = parent],
                               startpos, parentpos, newitem)
            ELSE [heap EXCEPT ![pos + 1] = newitem]
    ELSE [heap EXCEPT ![pos + 1] = newitem]

siftdown(heap, startpos, pos) ==
    siftdown_loop(heap, startpos, pos, heap[pos + 1])

RECURSIVE siftup_loop(_, _, _)
siftup_loop(heap, pos, childpos) ==
    IF childpos < Len(heap)
    THEN LET rightpos == childpos + 1
             child == IF rightpos < Len(heap)
                         /\ ~EventLt(heap[childpos + 1], heap[rightpos + 1])
                      THEN rightpos
                      ELSE childpos
         IN siftup_loop([heap EXCEPT ![pos + 1] = heap[child + 1]],
                        child, 2 * child + 1)
    ELSE [heap |-> heap, pos |-> pos]

siftup(heap, pos) ==
    LET newitem == heap[pos + 1]
        r == siftup_loop(heap, pos, 2 * pos + 1)
    IN siftdown([r.heap EXCEPT ![r.pos + 1] = newitem], pos, r.pos)

heappush_append_only(heap, item) == Append(heap, item)

heappush(heap, item) == siftdown(Append(heap, item), 0, Len(heap))

\* heappop on a non-empty heap: the item returned and the heap left behind
heappop_item(heap) == heap[1]

heappop_rest_drop_last(heap) ==
    LET rest == SubSeq(heap, 2, Len(heap) - 1)
    IN IF rest # <<>> THEN siftup(rest, 0) ELSE rest

heappop_rest(heap) ==
    LET lastelt == heap[Len(heap)]
        rest == SubSeq(heap, 1, Len(heap) - 1)
    IN IF rest # <<>> THEN siftup([rest EXCEPT ![1] = lastelt], 0) ELSE rest

\* ------------------------------------------------------------- Attendant
NewAttendant ==
    [active_orders |-> <<>>, status |-> "active", next_available |-> 0]

update_state_evict_strictly_older(a, c) ==
    LET kept == SelectSeq(a.active_orders, LAMBDA t : t + ServiceTime >= c)
    IN [a EXCEPT !.active_orders = kept,
                 !.next_available =
                     IF Len(kept) = 0 THEN c
                     ELSE IF Len(kept) = 1 THEN Max(c, kept[1] + Cooldown)
                     ELSE Max(kept[1] + ServiceTime, kept[2] + Cooldown)]

update_state_min_cooldown(a, c) ==
    LET kept == SelectSeq(a.active_orders, LAMBDA t : t + ServiceTime > c)
    IN [a EXCEPT !.active_orders = kept,
                 !.next_available =
                     IF Len(kept) = 0 THEN c
                     ELSE IF Len(kept) = 1 THEN Min(c, kept[1] + Cooldown)
                     ELSE Max(kept[1] + ServiceTime, kept[2] + Cooldown)]

update_state_swapped_gate(a, c) ==
    LET kept == SelectSeq(a.active_orders, LAMBDA t : t + ServiceTime > c)
    IN [a EXCEPT !.active_orders = kept,
                 !.next_available =
                     IF Len(kept) = 0 THEN c
                     ELSE IF Len(kept) = 1 THEN Max(c, kept[1] + Cooldown)
                     ELSE Max(kept[2] + ServiceTime, kept[1] + Cooldown)]

update_state_accumulating(a, c) ==
    LET kept == SelectSeq(a.active_orders, LAMBDA t : t + ServiceTime > c)
    IN [a EXCEPT !.active_orders = kept,
                 !.next_available =
                     IF Len(kept) = 0 THEN c
                     ELSE IF Len(kept) = 1
                          THEN Max(c, a.next_available + Cooldown)
                     ELSE Max(kept[1] + ServiceTime, kept[2] + Cooldown)]

update_state_no_cooldown(a, c) ==
    LET kept == SelectSeq(a.active_orders, LAMBDA t : t + ServiceTime > c)
    IN [a EXCEPT !.active_orders = kept,
                 !.next_available =
                     IF Len(kept) = 0 THEN c
                     ELSE IF Len(kept) = 1 THEN c
                     ELSE Max(kept[1] + ServiceTime, kept[2] + Cooldown)]

update_state(a, c) ==
    LET kept == SelectSeq(a.active_orders, LAMBDA t : t + ServiceTime > c)
    IN [a EXCEPT !.active_orders = kept,
                 !.next_available =
                     IF Len(kept) = 0 THEN c
                     ELSE IF Len(kept) = 1 THEN Max(c, kept[1] + Cooldown)
                     ELSE Max(kept[1] + ServiceTime, kept[2] + Cooldown)]

can_accept_status_only(a, c) == a.status = "active"

can_accept_any_status(a, c) ==
    c >= a.next_available /\ Len(a.active_orders) < 2

can_accept_ignore_cooldown(a, c) ==
    IF a.status # "active" THEN FALSE
    ELSE Len(a.active_orders) < 2

can_accept(a, c) ==
    IF a.status # "active" THEN FALSE
    ELSE c >= a.next_available /\ Len(a.active_orders) < 2

\* list.sort() after append: insert keeping ascending order; equal keys keep
\* the appended element last (the sort is stable)
RECURSIVE sorted_insert(_, _)
sorted_insert(s, t) ==
    IF s = <<>> THEN <<t>>
    ELSE IF s[Len(s)] <= t THEN Append(s, t)
    ELSE Append(sorted_insert(SubSeq(s, 1, Len(s) - 1), t), s[Len(s)])

Reverse(s) == [i \in 1..Len(s) |-> s[Len(s) + 1 - i]]

start_order_sort_descending(a, t) ==
    [a EXCEPT !.active_orders = Reverse(sorted_insert(a.active_orders, t))]

start_order_marks_overloaded(a, t) ==
    [a EXCEPT !.active_orders = sorted_insert(a.active_orders, t),
              !.status = IF Len(a.active_orders) = 1 THEN "overloaded" ELSE @]

start_order(a, t) ==
    [a EXCEPT !.active_orders = sorted_insert(a.active_orders, t)]

\* ---------------------------------------------------------- Orchestrator
Ok == [op |-> "ok", name |-> NoName, arg |-> "none", prev |-> <<>>]

NoShadow ==
    [on |-> FALSE, attendants |-> <<>>, processed |-> 0, rejected |-> 0]

\* Orchestrator(attendants): the roster is any list of Attendants by name
Roster == DOMAIN attendants

Init ==
    /\ \E R \in SUBSET Names : attendants = [n \in R |-> NewAttendant]
    /\ event_queue = <<>>
    /\ current_time = 0
    /\ processed = 0
    /\ rejected = 0
    /\ pc = "idle"
    /\ last = [op |-> "init", name |-> NoName, arg |-> "none", prev |-> <<>>]
    /\ submitted = 0
    /\ popped = [order_arrival |-> 0, order_completion |-> 0]
    /\ shadow = NoShadow

add_order(arrival_time) ==
    /\ pc = "idle"
    /\ submitted < MaxArrivals
    /\ event_queue' = heappush(event_queue,
                               Event(arrival_time, "order_arrival", NoName))
    /\ submitted' = submitted + 1
    /\ last' = Ok
    /\ UNCHANGED <<attendants, current_time, processed, rejected, pc, popped,
                   shadow>>

set_status_no_refresh(name, status) ==
    [attendants EXCEPT ![name].status = status]

set_status(name, status) ==
    IF status = "active"
    THEN [attendants EXCEPT
             ![name] = update_state([@ EXCEPT !.status = status], current_time)]
    ELSE [attendants EXCEPT ![name].status = status]

\* update_attendant_status on the attendants of the shadow Orchestrator
shadow_set_status(name, status) ==
    IF ~shadow.on \/ name \notin DOMAIN shadow.attendants
    THEN shadow.attendants
    ELSE IF status = "active"
    THEN [shadow.attendants EXCEPT
             ![name] = update_state([@ EXCEPT !.status = status], current_time)]
    ELSE [shadow.attendants EXCEPT ![name].status = status]

\* a lookup that creates the missing entry instead of failing
lookup_setdefault(name, status) ==
    IF name \in Roster THEN set_status(name, status)
    ELSE [n \in Roster \cup {name} |->
             IF n = name THEN [NewAttendant EXCEPT !.status = status]
             ELSE attendants[n]]

\* self.attendants[name] raises KeyError before anything is assigned
lookup_and_set(name, status) ==
    IF name \in Roster THEN set_status(name, status) ELSE attendants

update_attendant_status(name, status) ==
    /\ pc = "idle"
    /\ attendants' = lookup_and_set(name, status)
    /\ last' = IF name \in Roster
               THEN [Ok EXCEPT !.prev = attendants[name].active_orders]
               ELSE [Ok EXCEPT !.op = "KeyError", !.name = name]
    /\ shadow' = [shadow EXCEPT !.attendants = shadow_set_status(name, status)]
    /\ UNCHANGED <<event_queue, current_time, processed, rejected, pc,
                   submitted, popped>>

\* entering process_events
process_events_call ==
    /\ pc = "idle"
    /\ pc' = "running"
    /\ last' = [op |-> "process_events", name |-> NoName, arg |-> "none",
                prev |-> <<>>]
    /\ UNCHANGED <<attendants, event_queue, current_time, processed, rejected,
                   submitted, popped, shadow>>

refresh_all(c) == [n \in Roster |-> update_state(attendants[n], c)]

candidates(ws, c) == {n \in DOMAIN ws : can_accept(ws[n], c)}

\* min over ((len(active_orders), random()), name): any least-loaded candidate
best_of_any(ws, cands) == cands

best_of(ws, cands) ==
    {n \in cands : \A m \in cands :
        Len(ws[n].active_orders) <= Len(ws[m].active_orders)}

completion_time_now(c) == c

completion_time_cooldown(c) == c + Cooldown

completion_time(c) == c + ServiceTime

handle_order_arrival(c, q) ==
    LET ws == refresh_all(c)
        cands == candidates(ws, c)
    IN IF cands # {}
       THEN \E best \in best_of(ws, cands) :
               /\ attendants' = [ws EXCEPT ![best] = start_order(@, c)]
               /\ processed' = processed + 1
               /\ event_queue' = heappush(q, Event(completion_time(c),
                                                   "order_completion", best))
               /\ last' = [op |-> "accepted", name |-> best, arg |-> c,
                           prev |-> <<>>]
               /\ UNCHANGED rejected
       ELSE /\ attendants' = ws
            /\ rejected' = rejected + 1
            /\ event_queue' = q
            /\ last' = [op |-> "rejected", name |-> NoName, arg |-> c,
                        prev |-> <<>>]
            /\ UNCHANGED processed

handle_order_completion_counts(attendant_name, c, q) ==
    /\ attendants' = [attendants EXCEPT ![attendant_name] = update_state(@, c)]
    /\ event_queue' = q
    /\ last' = [op |-> "completed", name |-> attendant_name, arg |-> c,
                prev |-> <<>>]
    /\ processed' = processed + 1
    /\ UNCHANGED rejected

handle_order_completion(attendant_name, c, q) ==
    /\ attendants' = [attendants EXCEPT ![attendant_name] = update_state(@, c)]
    /\ event_queue' = q
    /\ last' = [op |-> "completed", name |-> attendant_name, arg |-> c,
                prev |-> <<>>]
    /\ UNCHANGED <<processed, rejected>>

\* handle_order_arrival on the shadow Orchestrator: the records it can move
\* to; with the same random keys it picks the winner of the real one
\* whenever that one is among its own least-loaded candidates
shadow_refresh_all(c) ==
    [n \in DOMAIN shadow.attendants |-> update_state(shadow.attendants[n], c)]

shadow_order_arrival(c, winner) ==
    LET ws == shadow_refresh_all(c)
        cands == candidates(ws, c)
        best == best_of(ws, cands)
    IN IF cands # {}
       THEN {[shadow EXCEPT
                 !.attendants = [ws EXCEPT ![b] = start_order(@, c)],
                 !.processed = @ + 1] :
                b \in IF winner \in best THEN {winner} ELSE best}
       ELSE {[shadow EXCEPT !.attendants = ws, !.rejected = @ + 1]}

\* one iteration of the while loop of process_events
process_events_step ==
    /\ pc = "running"
    /\ event_queue # <<>>
    /\ LET event == heappop_item(event_queue)
           q == heappop_rest(event_queue)
       IN /\ current_time' = event.time
          /\ popped' = [popped EXCEPT ![event.type] = @ + 1]
          /\ IF event.type = "order_arrival"
             THEN handle_order_arrival(event.time, q)
             ELSE handle_order_completion(event.attendant, event.time, q)
          /\ shadow' \in IF shadow.on /\ event.type = "order_arrival"
                         THEN shadow_order_arrival(event.time, last'.name)
                         ELSE {shadow}
    /\ UNCHANGED <<pc, submitted>>

\* the while condition fails: process_events returns
process_events_return ==
    /\ pc = "running"
    /\ event_queue = <<>>
    /\ pc' = "idle"
    /\ last' = Ok
    /\ UNCHANGED <<attendants, event_queue, current_time, processed, rejected,
                   submitted, popped, shadow>>

Next ==
    \/ \E t \in ArrivalTimes : add_order(t)
    \/ \E n \in Names, s \in Statuses :
          update_attendant_status(n, s)
    \/ process_events_call
    \/ process_events_step
    \/ process_events_return

Spec == Init /\ [][Next]_vars

\* the Orchestrator with the completion-ignoring one run beside it
ShadowInit ==
    /\ \E R \in SUBSET Names : attendants = [n \in R |-> NewAttendant]
    /\ event_queue = <<>>
    /\ current_time = 0
    /\ processed = 0
    /\ rejected = 0
    /\ pc = "idle"
    /\ last = [op |-> "init", name |-> NoName, arg |-> "none", prev |-> <<>>]
    /\ submitted = 0
    /\ popped = [order_arrival |-> 0, order_completion |-> 0]
    /\ shadow = [on |-> TRUE, attendants |-> attendants,
                 processed |-> 0, rejected |-> 0]

ShadowSpec == ShadowInit /\ [][Next]_vars

\* ------------------------------------------- Attendant driven on its own
\* One Attendant behind an Orchestrator whose clock reads any grid time; its
\* methods are called directly, start_order only below the capacity of two.
UnitTimes == 0..(MaxTime + 4)

UnitInit ==
    /\ \E n \in Names : attendants = [m \in {n} |-> NewAttendant]
    /\ event_queue = <<>>
    /\ current_time \in UnitTimes
    /\ processed = 0
    /\ rejected = 0
    /\ pc = "idle"
    /\ last = [op |-> "init", name |-> NoName, arg |-> "none", prev |-> <<>>]
    /\ submitted = 0
    /\ popped = [order_arrival |-> 0, order_completion |-> 0]
    /\ shadow = NoShadow

call_update_state(name, c) ==
    /\ name \in Roster
    /\ attendants' = [attendants EXCEPT ![name] = update_state(@, c)]
    /\ last' = [op |-> "update_state", name |-> name, arg |-> c,
                prev |-> attendants[name].active_orders]
    /\ UNCHANGED <<event_queue, current_time, processed, rejected, pc,
                   submitted, popped, shadow>>

call_start_order(name, t) ==
    /\ name \in Roster
    /\ Len(attendants[name].active_orders) < 2
    /\ attendants' = [attendants EXCEPT ![name] = start_order(@, t)]
    /\ last' = [op |-> "start_order", name |-> name, arg |-> t,
                prev |-> attendants[name].active_orders]
    /\ UNCHANGED <<event_queue, current_time, processed, rejected, pc,
                   submitted, popped, shadow>>

UnitNext ==
    \/ \E n \in Names, c \in UnitTimes : call_update_state(n, c)
    \/ \E n \in Names, t \in UnitTimes : call_start_order(n, t)
    \/ \E n \in Names, s \in Statuses : update_attendant_status(n, s)

UnitSpec == UnitInit /\ [][UnitNext]_vars

\* a started process_events keeps executing its loop until it returns
FairSpec ==
    Spec /\ WF_vars(process_events_step) /\ WF_vars(process_events_return)

\* ----------------------------------------------------------- properties
ActiveOrders(n) == attendants[n].active_orders

PoppedOps == {"accepted", "rejected", "completed"}

\* the step is one iteration of the loop of process_events
IsPop == pc = "running" /\ event_queue # <<>>

\* number of positions of sequence s holding e
Count(s, e) == Cardinality({i \in DOMAIN s : s[i] = e})

Range(s) == {s[i] : i \in DOMAIN s}

\* C1: capacity invariant - every worker, whatever its status, holds at most
\* two active orders in every state reachable through add_order,
\* update_attendant_status and process_events.
CapacityInvariant == \A n \in Roster : Len(ActiveOrders(n)) <= 2

CapacityWitness ==
    \E n \in Roster : Len(ActiveOrders(n)) = 2 /\ last.op = "rejected"

\* C2: sorted invariant - every worker's active_orders is in ascending order
\* of start time in every reachable state.
SortedInvariant ==
    \A n \in Roster : \A i, j \in DOMAIN ActiveOrders(n) :
        i < j => ActiveOrders(n)[i] <= ActiveOrders(n)[j]

SortedWitness ==
    /\ last.op = "accepted"
    /\ Len(ActiveOrders(last.name)) = 2
    /\ ActiveOrders(last.name)[1] < ActiveOrders(last.name)[2]

\* C3: monotonic time within one run - the time of each event popped by
\* process_events is >= the time of the event popped just before it in the
\* same run, the completions scheduled during the run included.
MonotonicTime ==
    [][(IsPop /\ last.op \in PoppedOps) => current_time' >= current_time]_vars

MonotonicWitness ==
    /\ pc = "running"
    /\ last.op = "completed"
    /\ popped.order_completion >= 1
    /\ popped.order_arrival >= 2
    /\ event_queue # <<>>

\* C4: the clock never moves backward - every step leaves current_time at a
\* value >= the one it had, for any accepted arrival times (negative ones
\* and ones submitted after an earlier run included).
ClockNeverBackward == [][current_time' >= current_time]_vars

\* C5: an arrival processed while no worker has status "active" is rejected:
\* rejected grows by exactly one, processed is unchanged, no worker gains an
\* active order and no event is added to the queue.
RejectionWhenNoneActive ==
    [][(/\ IsPop
        /\ event_queue[1].type = "order_arrival"
        /\ \A n \in Roster : attendants[n].status # "active")
       =>
       (/\ rejected' = rejected + 1
        /\ processed' = processed
        /\ \A n \in Roster : \A t \in Range(attendants'[n].active_orders) :
              Count(attendants'[n].active_orders, t) <= Count(ActiveOrders(n), t)
        /\ Len(event_queue') = Len(event_queue) - 1
        /\ \A e \in Range(event_queue') :
              Count(event_queue', e) <= Count(event_queue, e))]_vars

\* two inactive workers, one arrival at time 0, run finished
RejectionWitness ==
    /\ Roster = Names
    /\ \A n \in Roster : attendants[n].status = "inactive"
    /\ submitted = 1
    /\ pc = "idle"
    /\ event_queue = <<>>
    /\ current_time = 0
    /\ popped.order_arrival = 1
    /\ rejected = 1
    /\ processed = 0

\* C6: an arrival at t processed while some worker can accept after refresh
\* adds t to exactly one worker's active_orders, increments processed only,
\* and enqueues exactly one completion for that worker at t + 5.
AcceptanceEffect ==
    [][(/\ IsPop
        /\ event_queue[1].type = "order_arrival"
        /\ candidates(refresh_all(event_queue[1].time),
                      event_queue[1].time) # {})
       =>
       LET t == event_queue[1].time
           ws == refresh_all(t)
       IN \E w \in Roster :
            /\ \A x \in Range(ws[w].active_orders) \cup {t} :
                  Count(attendants'[w].active_orders, x)
                     = Count(ws[w].active_orders, x) + (IF x = t THEN 1 ELSE 0)
            /\ Len(attendants'[w].active_orders)
                  = Len(ws[w].active_orders) + 1
            /\ \A n \in Roster \ {w} :
                  attendants'[n].active_orders = ws[n].active_orders
            /\ processed' = processed + 1
            /\ rejected' = rejected
            /\ LET done == Event(t + 5, "order_completion", w)
               IN \A e \in Range(event_queue) \cup Range(event_queue') \cup {done} :
                     Count(event_queue', e)
                        = Count(event_queue, e)
                          - (IF e = event_queue[1] THEN 1 ELSE 0)
                          + (IF e = done THEN 1 ELSE 0)]_vars

\* one active empty worker, one arrival at time 0, completion pending at 5
AcceptanceWitness ==
    /\ Roster = {"Alice"}
    /\ submitted = 1
    /\ last.op = "accepted"
    /\ processed = 1
    /\ rejected = 0
    /\ ActiveOrders("Alice") = <<0>>
    /\ event_queue = <<Event(5, "order_completion", "Alice")>>

\* C7: reactivation refreshes with the clock - after a step that turns a
\* worker's status from non-active to "active" (only
\* update_attendant_status(name, "active") does) at clock c, the worker can
\* accept at c only if fewer than two orders with start + 5 > c remain and c is at
\* least start + 3 of a remaining one; with orders at 0 and 1 and c = 2 it
\* cannot accept.
ReactivationRefreshes ==
    [][\A n \in Roster :
          (attendants[n].status # "active" /\ attendants'[n].status = "active")
          =>
          LET c == current_time
              old == ActiveOrders(n)
              live == {i \in DOMAIN old : old[i] + 5 > c}
          IN /\ can_accept(attendants'[n], c) =>
                   (Cardinality(live) < 2 /\ \A i \in live : c >= old[i] + 3)
             /\ (old = <<0, 1>> /\ c = 2) => ~can_accept(attendants'[n], c)]_vars

ReactivationWitness ==
    \E n \in Roster :
        /\ last.op = "ok"
        /\ last.prev = <<0, 1>>
        /\ attendants[n].status = "active"
        /\ current_time = 2
        /\ ActiveOrders(n) = <<0, 1>>
        /\ attendants[n].next_available = 5
        /\ ~can_accept(attendants[n], 2)

\* C8: update_attendant_status with a name outside the roster fails and
\* leaves attendants, the queue, the clock and the counters unchanged.
UnknownNameNoChange ==
    [][(last'.op = "KeyError")
       =>
       (/\ last'.name \notin Roster
        /\ UNCHANGED <<attendants, event_queue, current_time, processed,
                       rejected, pc>>)]_vars

UnknownNameWitness ==
    /\ last.op = "KeyError"
    /\ last.name \notin Roster
    /\ Roster # {}
    /\ event_queue # <<>>

\* C9: process_events terminates and loses nothing - every event ever put
\* in the queue is either still pending or was popped once, a run that
\* returned has popped every submitted arrival and every scheduled
\* completion, and a started run always returns (process_events is outside
\* its loop again and again, so no run stays in it forever).
NoLostEvents ==
    /\ [](Len(event_queue) + popped.order_arrival + popped.order_completion
             = submitted + processed)
    /\ [][(pc = "running" /\ pc' = "idle") =>
             /\ event_queue' = <<>>
             /\ popped'.order_arrival = submitted'
             /\ popped'.order_completion = processed']_vars
    /\ [][IsPop => Len(event_queue') <= Len(event_queue)]_vars
    /\ []<>(pc = "idle")

NoLostEventsWitness ==
    /\ pc = "idle"
    /\ event_queue = <<>>
    /\ popped.order_arrival = MaxArrivals
    /\ popped.order_completion >= 2
    /\ rejected >= 1

RECURSIVE IsSubSeq(_, _)
IsSubSeq(s, t) ==
    IF s = <<>> THEN TRUE
    ELSE IF t = <<>> THEN FALSE
    ELSE IF s[1] = t[1] THEN IsSubSeq(Tail(s), Tail(t))
    ELSE IsSubSeq(s, Tail(t))

\* C10: eviction - update_state(c) removes exactly the starts s with
\* s + 5 <= c and keeps the others in their order; a single order t is gone
\* for c >= t + 5 and kept for c < t + 5.
EvictionCorrect ==
    [][(last'.op = "update_state")
       =>
       LET n == last'.name
           c == last'.arg
           old == ActiveOrders(n)
           new == attendants'[n].active_orders
       IN /\ \A x \in Range(old) :
                Count(new, x) = IF x + 5 > c THEN Count(old, x) ELSE 0
          /\ Range(new) \subseteq Range(old)
          /\ IsSubSeq(new, old)
          /\ Len(old) = 1 =>
                new = IF c >= old[1] + 5 THEN <<>> ELSE old]_vars

EvictionWitness ==
    /\ last.op = "update_state"
    /\ Len(last.prev) = 2
    /\ Len(ActiveOrders(last.name)) = 1
    /\ last.prev[1] + 5 = last.arg

\* C11: single-order cooldown - update_state(c) on a worker holding the one
\* order t sets next_available to t + 3 when t <= c < t + 3 and to c when
\* c >= t + 3 (the order is evicted from c = t + 5 on).
SingleOrderCooldown ==
    [][(last'.op = "update_state" /\ Len(ActiveOrders(last'.name)) = 1)
       =>
       LET t == ActiveOrders(last'.name)[1]
           c == last'.arg
           na == attendants'[last'.name].next_available
       IN /\ (t <= c /\ c < t + 3) => na = t + 3
          /\ c >= t + 3 => na = c]_vars

SingleOrderCooldownWitness ==
    /\ last.op = "update_state"
    /\ Len(last.prev) = 1
    /\ last.prev[1] < last.arg
    /\ last.arg < last.prev[1] + 3
    /\ attendants[last.name].next_available = last.prev[1] + 3

\* C12: double-order gate - update_state(c) on a worker holding t0 <= t1 at
\* a time c < t0 + 5 (both remain) sets next_available to
\* max(t0 + 5, t1 + 3), whatever c is.
DoubleOrderGate ==
    [][(/\ last'.op = "update_state"
        /\ Len(ActiveOrders(last'.name)) = 2
        /\ last'.arg < ActiveOrders(last'.name)[1] + 5)
       =>
       LET t0 == ActiveOrders(last'.name)[1]
           t1 == ActiveOrders(last'.name)[2]
           na == attendants'[last'.name].next_available
       IN /\ t0 <= t1
          /\ attendants'[last'.name].active_orders = <<t0, t1>>
          /\ na >= t0 + 5
          /\ na >= t1 + 3
          /\ na \in {t0 + 5, t1 + 3}]_vars

DoubleOrderGateWitness ==
    /\ last.op = "update_state"
    /\ Len(last.prev) = 2
    /\ ActiveOrders(last.name) = last.prev
    /\ last.prev[2] + 3 > last.prev[1] + 5
    /\ attendants[last.name].next_available = last.prev[2] + 3

\* C13: idempotent refresh - a second update_state(c) on the same worker
\* right after update_state(c), with nothing in between, leaves the worker
\* (active_orders, next_available, status) as the first call left it.
IdempotentRefresh ==
    [][(/\ last.op = "update_state"
        /\ last'.op = "update_state"
        /\ last'.name = last.name
        /\ last'.arg = last.arg)
       => attendants' = attendants]_vars

\* after a refresh that evicted one of two orders; the next call repeats it
IdempotentRefreshWitness ==
    /\ last.op = "update_state"
    /\ Len(last.prev) = 2
    /\ Len(ActiveOrders(last.name)) = 1
    /\ attendants[last.name].next_available > last.arg
    /\ ENABLED call_update_state(last.name, last.arg)

\* C14: least-loaded selection - the worker an accepted arrival goes to is a
\* candidate (can accept after refresh) and no candidate holds fewer active
\* orders than it did at that moment.
LeastLoadedSelection ==
    [][(IsPop /\ last'.op = "accepted")
       =>
       LET t == event_queue[1].time
           ws == refresh_all(t)
           w == last'.name
       IN /\ w \in candidates(ws, t)
          /\ Len(attendants'[w].active_orders) = Len(ws[w].active_orders) + 1
          /\ \A m \in candidates(ws, t) :
                Len(ws[w].active_orders) <= Len(ws[m].active_orders)]_vars

\* Alice holds one order and could take a second, yet empty Bob got this one
LeastLoadedWitness ==
    /\ Roster = Names
    /\ last.op = "accepted"
    /\ last.name = "Bob"
    /\ \A n \in Roster : attendants[n].status = "active"
    /\ Len(ActiveOrders("Alice")) = 1
    /\ ActiveOrders("Alice")[1] + 3 <= last.arg
    /\ ActiveOrders("Bob") = <<last.arg>>

\* C15: an arrival at c is rejected exactly when, after refresh at c, no
\* worker has status active, next_available <= c and fewer than 2 active
\* orders; an accepted one goes to a worker that satisfies all three.
RejectIffNoCandidate ==
    [][(IsPop /\ event_queue[1].type = "order_arrival")
       =>
       LET c == event_queue[1].time
           ws == refresh_all(c)
           eligible == {n \in Roster :
                           /\ ws[n].status = "active"
                           /\ c >= ws[n].next_available
                           /\ Len(ws[n].active_orders) < 2}
       IN /\ (rejected' = rejected + 1) <=> (eligible = {})
          /\ (processed' = processed + 1) <=> (eligible # {})
          /\ \A n \in Roster \ eligible :
                attendants'[n].active_orders = ws[n].active_orders
          /\ last'.op = "accepted" => last'.name \in eligible
          /\ \A n \in Roster : can_accept(ws[n], c) <=> n \in eligible]_vars

\* an active worker inside its cooldown turns the arrival down
RejectIffNoCandidateWitness ==
    /\ last.op = "rejected"
    /\ \E n \in Roster :
          /\ attendants[n].status = "active"
          /\ Len(ActiveOrders(n)) = 1
          /\ attendants[n].next_available > last.arg

\* C16: status frame - handling an event in process_events changes no
\* worker's status, and any step that changes a status is an
\* update_attendant_status call outside the loop.
StatusFrame ==
    [][/\ IsPop => (/\ Roster' = Roster
                    /\ \A n \in Roster :
                          attendants'[n].status = attendants[n].status)
       /\ (\E n \in Roster : attendants'[n].status # attendants[n].status)
             => (pc = "idle" /\ pc' = "idle" /\ last'.op = "ok")]_vars

\* a worker holding two orders is still active, next to an inactive one
StatusFrameWitness ==
    /\ pc = "running"
    /\ last.op \in PoppedOps
    /\ \E n \in Roster : Len(ActiveOrders(n)) = 2 /\ attendants[n].status = "active"
    /\ \E n \in Roster : attendants[n].status = "overloaded"

CompletionsPending ==
    Cardinality({i \in DOMAIN event_queue :
                    event_queue[i].type = "order_completion"})

\* C18: counter conservation - processed + rejected is the number of
\* arrivals popped, an arrival adds exactly 1 to exactly one of them, a
\* completion changes neither, a run that returns has counted every
\* submitted arrival, and processed is the number of completions scheduled.
CounterConservation ==
    /\ [](processed + rejected = popped.order_arrival)
    /\ [](processed = popped.order_completion + CompletionsPending)
    /\ [][(IsPop /\ event_queue[1].type = "order_arrival") =>
             \/ processed' = processed + 1 /\ rejected' = rejected
             \/ processed' = processed /\ rejected' = rejected + 1]_vars
    /\ [][(IsPop /\ event_queue[1].type = "order_completion") =>
             (processed' = processed /\ rejected' = rejected)]_vars
    /\ [][(pc = "running" /\ pc' = "idle") =>
             processed' + rejected' = submitted']_vars

CounterConservationWitness ==
    /\ pc = "idle"
    /\ last.op = "ok"
    /\ event_queue = <<>>
    /\ submitted = MaxArrivals
    /\ processed = 2
    /\ rejected = 1
    /\ popped.order_completion = 2

\* C19: quiescence - outside process_events every worker's active_orders is
\* empty whatever its status, and at any moment each active order s of a
\* worker has a completion for that worker pending at s + 5.
Quiescence ==
    /\ pc = "idle" => \A n \in Roster : ActiveOrders(n) = <<>>
    /\ \A n \in Roster : \A s \in Range(ActiveOrders(n)) :
          Count(ActiveOrders(n), s)
             <= Count(event_queue, Event(s + 5, "order_completion", n))

\* a run that served two orders on one worker has returned
QuiescenceWitness ==
    /\ pc = "idle"
    /\ event_queue = <<>>
    /\ Cardinality(Roster) = 1
    /\ processed = 2
    /\ popped.order_completion = 2
    /\ current_time = MaxTime + 5

CompletionAdvisory ==
    /\ [](shadow.processed = processed /\ shadow.rejected = rejected)
    /\ [][(IsPop /\ event_queue[1].type = "order_arrival")
          =>
          LET c == event_queue[1].time
              ws == refresh_all(c)
              sws == shadow_refresh_all(c)
          IN /\ candidates(sws, c) = candidates(ws, c)
             /\ \A n \in candidates(ws, c) :
                   Len(sws[n].active_orders) = Len(ws[n].active_orders)]_vars

====
